---- MODULE Spec2Model ----
(***************************************************************************)
(* A model of buwoong-i: main.py walks a directory tree, selects files by  *)
(* the merged filter configuration and renders one markdown document.     *)
(*                                                                         *)
(* Python strings are modelled as sequences of one-character strings, so   *)
(* that str.endswith, str.lower, str.replace, str.count, os.path.join,     *)
(* os.path.relpath and the ordering used by sorted() are all computed as   *)
(* the code computes them.                                                 *)
(***************************************************************************)
EXTENDS Integers, Sequences, FiniteSets, TLC

(***************************************************************************)
(* Bounds of the model.                                                    *)
(***************************************************************************)
\* largest number of directories below the root
MaxDirs == 2

(***************************************************************************)
(* Python string primitives.                                               *)
(***************************************************************************)
\* the characters that occur, in code-point order (str comparison order)
CharOrder ==
  <<"-", ".", "/", "3", "D", "M", "_",
    "a", "b", "c", "d", "e", "f", "g", "h", "i", "j", "k", "l", "m",
    "n", "o", "p", "q", "r", "s", "t", "u", "v", "w", "x", "y", "z">>

Ord(c) == CHOOSE i \in 1..Len(CharOrder) : CharOrder[i] = c

\* str.lower on one character (D and M are the upper-case letters of CharOrder)
LowerChar(c) == IF c = "D" THEN "d" ELSE IF c = "M" THEN "m" ELSE c

\* str.lower
Lower(s) == [i \in 1..Len(s) |-> LowerChar(s[i])]

\* str.endswith
EndsWith(s, suffix) ==
  /\ Len(suffix) <= Len(s)
  /\ SubSeq(s, Len(s) - Len(suffix) + 1, Len(s)) = suffix

\* s[i:].startswith(sub), 1-based
StartsWithAt(s, sub, i) ==
  /\ i + Len(sub) - 1 <= Len(s)
  /\ SubSeq(s, i, i + Len(sub) - 1) = sub

\* str.replace(old, new): leftmost non-overlapping occurrences, left to right
RECURSIVE ReplaceFrom(_, _, _, _)
ReplaceFrom(s, old, new, i) ==
  IF i > Len(s) THEN <<>>
  ELSE IF Len(old) > 0 /\ StartsWithAt(s, old, i)
       THEN new \o ReplaceFrom(s, old, new, i + Len(old))
       ELSE <<s[i]>> \o ReplaceFrom(s, old, new, i + 1)

Replace(s, old, new) == ReplaceFrom(s, old, new, 1)

\* str.count of a single character
Count(s, c) == Cardinality({i \in 1..Len(s) : s[i] = c})

\* the str "<" ordering: lexicographic by code point, a proper prefix first
RECURSIVE StrLess(_, _)
StrLess(a, b) ==
  IF Len(b) = 0 THEN FALSE
  ELSE IF Len(a) = 0 THEN TRUE
  ELSE IF Ord(a[1]) < Ord(b[1]) THEN TRUE
  ELSE IF Ord(a[1]) > Ord(b[1]) THEN FALSE
  ELSE StrLess(Tail(a), Tail(b))

\* insert x into the sorted list s, after the entries equal to it
RECURSIVE Insert(_, _)
Insert(s, x) ==
  IF s = <<>> THEN <<x>>
  ELSE IF StrLess(x, Head(s)) THEN <<x>> \o s
  ELSE <<Head(s)>> \o Insert(Tail(s), x)

RECURSIVE SortFrom(_, _)
SortFrom(s, acc) ==
  IF s = <<>> THEN acc ELSE SortFrom(Tail(s), Insert(acc, Head(s)))

\* a list without its order (a mutant of sorted)
Unsorted(s) == s

\* the builtin sorted() on a list of str
sorted(s) == SortFrom(s, <<>>)

sep == <<"/">>

\* os.path.join(root, name), root not ending in a separator
join(root, name) == root \o sep \o name

\* index of the last separator of p, 0 when there is none
LastSep(p) ==
  IF \E i \in 1..Len(p) : p[i] = "/"
  THEN CHOOSE i \in 1..Len(p) : p[i] = "/" /\ \A j \in (i+1)..Len(p) : p[j] # "/"
  ELSE 0

\* Path(p).name and os.path.basename(os.path.normpath(p)) of a normalised path
PathName(p) == SubSeq(p, LastSep(p) + 1, Len(p))

\* os.path.relpath(path, start) for a path below start (no ".." is needed):
\* the components of path after those it shares with start
relpath(path, start) ==
  IF StartsWithAt(path, start \o sep, 1)
  THEN SubSeq(path, Len(start) + 2, Len(path))
  ELSE path

\* all orders in which a finite set can be enumerated
RECURSIVE Orders(_)
Orders(S) ==
  IF S = {} THEN {<<>>}
  ELSE UNION {{<<x>> \o o : o \in Orders(S \ {x})} : x \in S}

\* list comprehension [x for x in s if x in keep]
RECURSIVE Filter(_, _)
Filter(s, keep) ==
  IF s = <<>> THEN <<>>
  ELSE (IF Head(s) \in keep THEN <<Head(s)>> ELSE <<>>) \o Filter(Tail(s), keep)

Range(s) == {s[i] : i \in 1..Len(s)}

(***************************************************************************)
(* extension_configs.py: the static filter policy.                         *)
(***************************************************************************)
py == <<"p","y">>
dart == <<"d","a","r","t">>
sql == <<"s","q","l">>
\* an extension outside the closed set
js == <<"j","s">>

common_config ==
  [exclude_dir |-> << <<".","v","s","c","o","d","e">>,
                      <<".","i","d","e","a">>,
                      <<".","g","i","t","h","o","o","k">>,
                      <<".","a","i","d","e","r",".","t","a","g","s",".","c","a","c","h","e",".","v","3">>,
                      <<".","g","i","t">>,
                      <<".","g","i","t","h","o","o","k","s">> >>,
   exclude_file |-> << <<".","g","i","t","i","g","n","o","r","e">>,
                       <<".","g","i","t","k","e","e","p">> >>,
   exclude_extension |-> << >>,
   include_file |-> << <<"m","a","k","e","f","i","l","e">> >>]

python_config ==
  [exclude_dir |-> << <<".","v","e","n","v">>,
                      <<"v","e","n","v">>,
                      <<"_","_","p","y","c","a","c","h","e","_","_">>,
                      <<".","m","y","p","y","_","c","a","c","h","e">> >>,
   exclude_file |-> << <<"_","_","i","n","i","t","_","_",".","p","y">> >>,
   exclude_extension |-> << <<".","p","y","c">> >>,
   include_file |-> << <<"d","o","c","k","e","r","f","i","l","e">>,
                       <<"d","o","c","k","e","r","-","c","o","m","p","o","s","e",".","y","m","l">>,
                       <<"d","o","c","k","e","r","-","c","o","m","p","o","s","e",".","y","a","m","l">> >>]

dart_config ==
  [exclude_dir |-> << <<"i","o","s">>,
                      <<"a","n","d","r","o","i","d">>,
                      <<"m","a","c","o","s">>,
                      <<"w","i","n","d","o","w">>,
                      <<"w","e","b">>,
                      <<"b","u","i","l","d">>,
                      <<"a","s","s","e","t","s">>,
                      <<".","d","a","r","t","_","t","o","o","l">> >>,
   exclude_file |-> << >>,
   exclude_extension |-> << <<".","g",".","d","a","r","t">>,
                            <<".","g","r",".","d","a","r","t">> >>,
   include_file |-> << <<"p","u","b","s","p","e","c",".","y","a","m","l">> >>]

sql_config ==
  [exclude_dir |-> << >>, exclude_file |-> << >>,
   exclude_extension |-> << >>, include_file |-> << >>]

EXTENSION_CONFIGS ==
  [common |-> common_config, python |-> python_config,
   dart |-> dart_config, sql |-> sql_config]

SupportedExtensions == {dart, py, sql}

EXTENSION_MAP(e) ==
  IF e = py THEN "python" ELSE IF e = dart THEN "dart" ELSE "sql"

(***************************************************************************)
(* main.py: the pure functions.                                            *)
(***************************************************************************)
\* the caller's extra names replace the built-in ones (a mutant of get_file_config)
get_file_config_replacing(target_extension, additional_exclude_dirs) ==
  LET current_config == EXTENSION_CONFIGS[EXTENSION_MAP(target_extension)]
      common == EXTENSION_CONFIGS["common"]
  IN  [exclude_dirs |->
         IF additional_exclude_dirs # <<>>
         THEN Range(additional_exclude_dirs)
         ELSE Range(common.exclude_dir \o current_config.exclude_dir),
       exclude_files |-> Range(common.exclude_file \o current_config.exclude_file),
       exclude_extensions |->
         Range(common.exclude_extension \o current_config.exclude_extension),
       include_files |-> Range(common.include_file \o current_config.include_file)]

\* get_file_config: set(list + list + list) is the union of the three lists
get_file_config(target_extension, additional_exclude_dirs) ==
  LET current_config == EXTENSION_CONFIGS[EXTENSION_MAP(target_extension)]
      common == EXTENSION_CONFIGS["common"]
  IN  [exclude_dirs |->
         Range(common.exclude_dir \o current_config.exclude_dir
               \o additional_exclude_dirs),
       exclude_files |-> Range(common.exclude_file \o current_config.exclude_file),
       exclude_extensions |->
         Range(common.exclude_extension \o current_config.exclude_extension),
       include_files |-> Range(common.include_file \o current_config.include_file)]

\* the excluded-files test left out (a mutant of should_include_file)
should_include_file_no_exclude_files(filename, extension, config) ==
  IF \E ext \in config.exclude_extensions : EndsWith(filename, ext) THEN FALSE
  ELSE \/ EndsWith(filename, <<".">> \o extension)
       \/ Lower(filename) \in config.include_files

should_include_file(filename, extension, config) ==
  IF filename \in config.exclude_files THEN FALSE
  ELSE IF \E ext \in config.exclude_extensions : EndsWith(filename, ext) THEN FALSE
  ELSE \/ EndsWith(filename, <<".">> \o extension)
       \/ Lower(filename) \in config.include_files

get_file_extension(file_name, target_extension) ==
  IF Lower(file_name) = <<"d","o","c","k","e","r","f","i","l","e">> THEN <<"d","o","c","k","e","r">>
  ELSE IF Lower(file_name) \in
            { <<"d","o","c","k","e","r","-","c","o","m","p","o","s","e",".","y","m","l">>,
              <<"d","o","c","k","e","r","-","c","o","m","p","o","s","e",".","y","a","m","l">> }
       THEN <<"y","a","m","l">>
  ELSE IF Lower(file_name) = <<"m","a","k","e","f","i","l","e">>
       THEN <<"m","a","k","e","f","i","l","e">>
  ELSE target_extension

(***************************************************************************)
(* The inputs of a run: the YAML configuration and the directory tree.     *)
(***************************************************************************)
a_py == <<"a",".","p","y">>
b_pyc == <<"b",".","p","y","c">>
init_py == <<"_","_","i","n","i","t","_","_",".","p","y">>
Dockerfile == <<"D","o","c","k","e","r","f","i","l","e">>
m_dart == <<"m",".","d","a","r","t">>
m_g_dart == <<"m",".","g",".","d","a","r","t">>
Makefile == <<"M","a","k","e","f","i","l","e">>
q_sql == <<"q",".","s","q","l">>
gitignore == <<".","g","i","t","i","g","n","o","r","e">>
t_md == <<"t",".","m","d">>

\* the file names a directory of the tree may hold
FileSets ==
  { {a_py, b_pyc, init_py, Dockerfile},
    {m_dart, m_g_dart, Makefile},
    {q_sql, gitignore, t_md} }

d_a == <<"a">>
d_git == <<".","g","i","t">>
d_venv == <<".","v","e","n","v">>
d_x == <<"x">>

DirNames == {d_a, d_git, d_venv, d_x}

\* the (absolute, normalised) root path a run is given
RootPaths == { <<"/","a">> }

Extensions == {py, dart, sql, js}

\* the exclude_dir lists of the YAML configuration
ExtraDirLists == { <<>>, <<d_x>> }

RECURSIVE DirPath(_, _)
DirPath(root, rel) ==
  IF rel = <<>> THEN root ELSE join(DirPath(root, SubSeq(rel, 1, Len(rel) - 1)), rel[Len(rel)])

\* the sets of at most n directories below the root a tree may have, each
\* directory given by its names from the root down: a set is grown by adding
\* a directory to the root or to a directory already in it
RECURSIVE ShapesUpTo(_)
ShapesUpTo(n) ==
  IF n = 0 THEN {{}}
  ELSE LET smaller == ShapesUpTo(n - 1)
       IN  smaller \cup
           UNION {{S \cup {Append(r, d)} : r \in S \cup {<<>>}, d \in DirNames} :
                    S \in smaller}

Shapes == ShapesUpTo(MaxDirs)

VARIABLES
  path, extension, exclude_dir,        \* ProjectConfig: path, extension, exclude_dir
  rootKind,                            \* what path names: "absent", "file" or "dir"
  subdirs,                             \* the directories below the root, as paths
  files,                               \* the file names every directory holds
  lockedDirs, lockedFiles,             \* the paths that cannot be listed / read
  outputDirExists, written,            \* the output directory and the files saved in it
  pc, err, printed,                    \* position in main, exception raised, message
  fsops,                               \* the filesystem calls this run has made
  stack,                               \* os.walk's pending directories, next first
  target_files, infrastructure_files,  \* collect_files' result lists
  unlisted,                            \* directories whose scandir error os.walk ignored
  metadata, code,                      \* the rendered Metadata and Code sections
  rerun, firstDoc                      \* second invocation, and the first one's document

params == <<path, extension, exclude_dir>>
treeVars == <<rootKind, subdirs, files, lockedDirs, lockedFiles>>
runVars == <<pc, err, printed, fsops, stack, target_files, infrastructure_files,
            unlisted, metadata, code>>
vars == <<params, treeVars, outputDirExists, written, runVars, rerun, firstDoc>>

abs_directory == path

NoMetadata == [n_target |-> 0, n_infra |-> 0, tree |-> <<>>]

FreshRun ==
  /\ pc = "start"
  /\ err = "none"
  /\ printed = "none"
  /\ fsops = {}
  /\ stack = <<>>
  /\ target_files = <<>>
  /\ infrastructure_files = <<>>
  /\ unlisted = {}
  /\ metadata = NoMetadata
  /\ code = <<>>

Init ==
  /\ path \in RootPaths
  /\ extension \in Extensions
  /\ exclude_dir \in ExtraDirLists
  /\ rootKind \in {"absent", "file", "dir"}
  /\ IF rootKind = "dir"
     THEN /\ \E S \in Shapes : subdirs = {DirPath(path, r) : r \in S}
          /\ files \in FileSets
          /\ lockedDirs \in {{}} \cup {{d} : d \in subdirs \cap {join(path, d_a)}}
          /\ lockedFiles \in
               {{}} \cup {{join(path, f)} : f \in files \cap {a_py, Makefile, q_sql}}
     ELSE /\ subdirs = {}
          /\ files = {}
          /\ lockedDirs = {}
          /\ lockedFiles = {}
  /\ outputDirExists \in BOOLEAN
  /\ written = <<>>
  /\ FreshRun
  /\ rerun = FALSE
  /\ firstDoc = <<>>

(***************************************************************************)
(* The filesystem as the program sees it.                                  *)
(***************************************************************************)
\* os.path.exists
exists(p) == rootKind # "absent" /\ p \in {path} \cup subdirs

\* os.scandir succeeds: p is a directory that can be listed
Listable(p) == rootKind = "dir" /\ p \in ({path} \cup subdirs) \ lockedDirs

Parent(p) == SubSeq(p, 1, LastSep(p) - 1)

\* the names os.scandir reports in p, split by os.walk into dirs and files
ChildDirs(p) == {PathName(d) : d \in {c \in subdirs : Parent(c) = p}}
ChildFiles(p) == files

\* open(file_path).read() succeeds
Readable(file_path) == file_path \notin lockedFiles

(***************************************************************************)
(* main.py: the steps of a run.                                            *)
(***************************************************************************)
config == get_file_config(extension, exclude_dir)

\* no existence test of the directory (a mutant of validate_inputs)
validate_inputs_no_exists(directory, target_extension) ==
  IF target_extension \notin SupportedExtensions THEN "ValueError" ELSE "none"

\* validate_inputs: the exception it raises, "none" when it returns
validate_inputs(directory, target_extension) ==
  IF target_extension \notin SupportedExtensions THEN "ValueError"
  ELSE IF ~exists(directory) THEN "FileNotFoundError"
  ELSE "none"

\* dirs[:] = [d for d in dirs if d not in config.exclude_dirs]
prune(dirs, cfg) == Filter(dirs, Range(dirs) \ cfg.exclude_dirs)

\* the inner loop of collect_files over one directory's files
RECURSIVE collect_dir(_, _, _, _, _)
collect_dir(root, fileList, target_extension, cfg, acc) ==
  IF fileList = <<>> THEN acc
  ELSE LET file == Head(fileList)
           file_path == join(root, file)
           next ==
             IF should_include_file(file, target_extension, cfg)
             THEN IF EndsWith(file, <<".">> \o target_extension)
                  THEN [acc EXCEPT !.t = Append(@, file_path)]
                  ELSE [acc EXCEPT !.i = Append(@, file_path)]
             ELSE acc
       IN  collect_dir(root, Tail(fileList), target_extension, cfg, next)

\* level = root.replace(abs_directory, "").count(os.sep)
level(root, abs_dir) == Count(Replace(root, abs_dir, <<>>), "/")

\* the lines generate_metadata_section adds for one directory of the walk;
\* path records which entry a line stands for, indent and text are what is printed
tree_lines(root, fileList, abs_dir, target_extension, cfg) ==
  LET lvl == level(root, abs_dir)
      included_files == Filter(fileList,
                          {f \in Range(fileList) :
                             should_include_file(f, target_extension, cfg)})
      ordered == sorted(included_files)
  IN  <<[indent |-> 4 * lvl, text |-> PathName(root) \o sep, path |-> root]>>
      \o [k \in 1..Len(ordered) |->
            [indent |-> 4 * (lvl + 1), text |-> ordered[k],
             path |-> join(root, ordered[k])]]

\* a file that cannot be read is left out (a mutant of render_file)
render_file_skipping(file_path, abs_dir, target_extension) ==
  IF Readable(file_path)
  THEN <<[heading |-> relpath(file_path, abs_dir),
          lang |-> get_file_extension(PathName(file_path), target_extension),
          error |-> FALSE, body |-> file_path]>>
  ELSE <<>>

\* the body of generate_code_section's loop: the heading and block of one
\* file; body names the file whose verbatim content is printed, or the
\* failure when the read raised
render_file(file_path, abs_dir, target_extension) ==
  IF Readable(file_path)
  THEN <<[heading |-> relpath(file_path, abs_dir),
          lang |-> get_file_extension(PathName(file_path), target_extension),
          error |-> FALSE, body |-> file_path]>>
  ELSE <<[heading |-> relpath(file_path, abs_dir),
          lang |-> <<>>,
          error |-> TRUE, body |-> <<"E","r","r","o","r">>]>>

RECURSIVE render_all(_, _, _)
render_all(fileList, abs_dir, target_extension) ==
  IF fileList = <<>> THEN <<>>
  ELSE render_file(Head(fileList), abs_dir, target_extension)
       \o render_all(Tail(fileList), abs_dir, target_extension)

generate_code_section(abs_dir, fileList, target_extension) ==
  render_all(sorted(fileList), abs_dir, target_extension)

\* main, up to the try block: the output directory is created if absent
MainStart ==
  /\ pc = "start"
  /\ fsops' = fsops \cup {"exists_output"}
                \cup (IF outputDirExists THEN {} ELSE {"makedirs_output"})
  /\ outputDirExists' = TRUE
  /\ pc' = "validate"
  /\ UNCHANGED <<params, treeVars, written, err, printed, stack, target_files,
                 infrastructure_files, unlisted, metadata, code, rerun, firstDoc>>

\* read_files_in_directory: validate_inputs
ValidateInputs ==
  /\ pc = "validate"
  /\ LET e == validate_inputs(path, extension)
     IN  /\ err' = e
         /\ pc' = IF e = "none" THEN "config" ELSE "except"
  /\ fsops' = IF extension \in SupportedExtensions
              THEN fsops \cup {"exists_root"} ELSE fsops
  /\ UNCHANGED <<params, treeVars, outputDirExists, written, printed, stack,
                 target_files, infrastructure_files, unlisted, metadata, code,
                 rerun, firstDoc>>

\* read_files_in_directory: the configuration, and collect_files up to its walk
InitConfig ==
  /\ pc = "config"
  /\ target_files' = <<>>
  /\ infrastructure_files' = <<>>
  /\ stack' = <<abs_directory>>
  /\ pc' = "collect"
  /\ UNCHANGED <<params, treeVars, outputDirExists, written, err, printed, fsops,
                 unlisted, metadata, code, rerun, firstDoc>>

\* collect_files: one iteration of the os.walk loop.  os.walk is called
\* without onerror, so a directory whose scandir fails yields nothing.
CollectStep ==
  /\ pc = "collect"
  /\ stack # <<>>
  /\ LET root == Head(stack)
     IN  IF ~Listable(root)
         THEN /\ stack' = Tail(stack)
              /\ unlisted' = unlisted \cup {root}
              /\ UNCHANGED <<target_files, infrastructure_files>>
         ELSE \E dirs \in Orders(ChildDirs(root)), fileList \in Orders(ChildFiles(root)) :
                LET kept == prune(dirs, config)
                    got == collect_dir(root, fileList, extension, config,
                                       [t |-> target_files, i |-> infrastructure_files])
                IN  /\ target_files' = got.t
                    /\ infrastructure_files' = got.i
                    /\ stack' = [k \in 1..Len(kept) |-> join(root, kept[k])] \o Tail(stack)
                    /\ UNCHANGED unlisted
  /\ fsops' = fsops \cup {"scandir"}
  /\ UNCHANGED <<params, treeVars, outputDirExists, written, pc, err, printed,
                 metadata, code, rerun, firstDoc>>

\* collect_files returns; generate_metadata_section prints the counts
CollectReturn ==
  /\ pc = "collect"
  /\ stack = <<>>
  /\ metadata' = [n_target |-> Len(target_files),
                  n_infra |-> Len(infrastructure_files), tree |-> <<>>]
  /\ stack' = <<abs_directory>>
  /\ pc' = "metadata"
  /\ UNCHANGED <<params, treeVars, outputDirExists, written, err, printed, fsops,
                 target_files, infrastructure_files, unlisted, code, rerun, firstDoc>>

\* generate_metadata_section: one iteration of its os.walk loop
MetadataStep ==
  /\ pc = "metadata"
  /\ stack # <<>>
  /\ LET root == Head(stack)
     IN  IF ~Listable(root)
         THEN /\ stack' = Tail(stack)
              /\ UNCHANGED metadata
         ELSE \E dirs \in Orders(ChildDirs(root)), fileList \in Orders(ChildFiles(root)) :
                LET kept == prune(dirs, config)
                IN  /\ metadata' =
                         [metadata EXCEPT !.tree =
                            @ \o tree_lines(root, fileList, abs_directory, extension, config)]
                    /\ stack' = [k \in 1..Len(kept) |-> join(root, kept[k])] \o Tail(stack)
  /\ UNCHANGED <<params, treeVars, outputDirExists, written, pc, err, printed, fsops,
                 target_files, infrastructure_files, unlisted, code, rerun, firstDoc>>

\* generate_metadata_section returns
MetadataReturn ==
  /\ pc = "metadata"
  /\ stack = <<>>
  /\ pc' = "code"
  /\ UNCHANGED <<params, treeVars, outputDirExists, written, err, printed, fsops,
                 stack, target_files, infrastructure_files, unlisted, metadata,
                 code, rerun, firstDoc>>

\* generate_code_section, and read_files_in_directory returns the document
GenerateCodeSection ==
  /\ pc = "code"
  /\ code' = generate_code_section(abs_directory,
                                   target_files \o infrastructure_files, extension)
  /\ fsops' = IF target_files \o infrastructure_files = <<>>
              THEN fsops ELSE fsops \cup {"open_read"}
  /\ pc' = "save"
  /\ UNCHANGED <<params, treeVars, outputDirExists, written, err, printed, stack,
                 target_files, infrastructure_files, unlisted, metadata, rerun,
                 firstDoc>>

markdown_content == [title |-> PathName(abs_directory), metadata |-> metadata, code |-> code]

\* main: save_markdown and the success message
SaveMarkdown ==
  /\ pc = "save"
  /\ written' = Append(written, markdown_content)
  /\ fsops' = fsops \cup {"open_write"}
  /\ printed' = "created successfully"
  /\ pc' = "done"
  /\ UNCHANGED <<params, treeVars, outputDirExists, err, stack, target_files,
                 infrastructure_files, unlisted, metadata, code, rerun, firstDoc>>

\* main: except (ValueError, FileNotFoundError)
ExceptHandler ==
  /\ pc = "except"
  /\ printed' = "Error"
  /\ pc' = "done"
  /\ UNCHANGED <<params, treeVars, outputDirExists, written, err, fsops, stack,
                 target_files, infrastructure_files, unlisted, metadata, code,
                 rerun, firstDoc>>

\* the program is invoked a second time with the same configuration on the
\* same tree; the first run's outcome is kept for comparison
Rerun ==
  /\ pc = "done"
  /\ ~rerun
  /\ rerun' = TRUE
  /\ firstDoc' = <<[printed |-> printed, metadata |-> metadata, code |-> code]>>
  /\ pc' = "start"
  /\ err' = "none"
  /\ printed' = "none"
  /\ fsops' = {}
  /\ stack' = <<>>
  /\ target_files' = <<>>
  /\ infrastructure_files' = <<>>
  /\ unlisted' = {}
  /\ metadata' = NoMetadata
  /\ code' = <<>>
  /\ UNCHANGED <<params, treeVars, outputDirExists, written>>

Next ==
  \/ MainStart
  \/ ValidateInputs
  \/ InitConfig
  \/ CollectStep
  \/ CollectReturn
  \/ MetadataStep
  \/ MetadataReturn
  \/ GenerateCodeSection
  \/ SaveMarkdown
  \/ ExceptHandler

Spec == Init /\ [][Next]_vars

\* two invocations, one after the other
NextTwice ==
  \/ Next
  \/ Rerun

SpecTwice == Init /\ [][NextTwice]_vars

(***************************************************************************)
(* Vocabulary of the properties.                                           *)
(***************************************************************************)
\* p lies below directory d
Under(p, d) == StartsWithAt(p, d \o sep, 1)

\* the number of directories between the root and p: 0 for the root itself
Depth(p) == Count(p, "/") - Count(abs_directory, "/")

collected == target_files \o infrastructure_files

\* collect_files has returned
Collected == pc \in {"metadata", "code", "save", "done"} /\ err = "none"

\* the document is complete
Rendered == pc \in {"save", "done"} /\ err = "none"

Succeeded == pc = "done" /\ printed = "created successfully"

\* the file a Code heading stands for
HeadingFile(k) == join(abs_directory, code[k].heading)

IsDirLine(l) == EndsWith(l.text, sep)

TreeFiles == {metadata.tree[k].path : k \in {j \in 1..Len(metadata.tree) : ~IsDirLine(metadata.tree[j])}}

\* what is printed of the Metadata section and of the Code section
Printed(m, c) ==
  [n_target |-> m.n_target, n_infra |-> m.n_infra,
   tree |-> [k \in 1..Len(m.tree) |-> <<m.tree[k].indent, m.tree[k].text>>],
   code |-> c]

(***************************************************************************)
(* C1.  Every file of a directory that the walk reaches is classified by   *)
(* the precedence excluded-name, excluded-suffix, target, infrastructure,  *)
(* excluded; collect_files returns exactly the files so classified Target  *)
(* and Infrastructure, no file in both lists or twice in one; for py, a    *)
(* lone directory holding a.py, b.pyc, __init__.py and Dockerfile gives    *)
(* targets {a.py} and infrastructure {Dockerfile}.                         *)
(***************************************************************************)
Classification(f) ==
  IF f \in config.exclude_files THEN "Excluded"
  ELSE IF \E suffix \in config.exclude_extensions : EndsWith(f, suffix) THEN "Excluded"
  ELSE IF EndsWith(f, <<".">> \o extension) THEN "Target"
  ELSE IF Lower(f) \in config.include_files THEN "Infrastructure"
  ELSE "Excluded"

\* the directories the walk lists: the root and every directory below it that
\* has no excluded name and no unlistable directory on its way from the root
ReachedDirs ==
  {d \in {path} \cup subdirs :
     /\ Listable(d)
     /\ \A c \in subdirs :
          (c = d \/ Under(d, c)) =>
            PathName(c) \notin config.exclude_dirs /\ Listable(c)}

FilesClassified(class) ==
  {join(d, f) : d \in ReachedDirs, f \in {g \in files : Classification(g) = class}}

C1_Classification ==
  Collected =>
    /\ Range(target_files) = FilesClassified("Target")
    /\ Range(infrastructure_files) = FilesClassified("Infrastructure")
    /\ Range(target_files) \cap Range(infrastructure_files) = {}
    /\ Cardinality(Range(collected)) = Len(collected)
    /\ (extension = py /\ subdirs = {} /\ rootKind = "dir"
        /\ files = {a_py, b_pyc, init_py, Dockerfile})
         => /\ target_files = <<join(path, a_py)>>
            /\ infrastructure_files = <<join(path, Dockerfile)>>

C1_Witness ==
  /\ Collected
  /\ extension = py
  /\ files = {a_py, b_pyc, init_py, Dockerfile}
  /\ Len(target_files) = 2
  /\ Len(infrastructure_files) = 2

(***************************************************************************)
(* C2.  The effective excluded-directory set is the union of the common,   *)
(* the category and the caller's names; a directory below the root with    *)
(* such a name is never walked, is not in the Metadata tree, and no file   *)
(* beneath it is in the target list, the infrastructure list or the Code   *)
(* section.                                                                *)
(***************************************************************************)
ExcludedNames ==
  Range(EXTENSION_CONFIGS["common"].exclude_dir)
    \cup Range(EXTENSION_CONFIGS[EXTENSION_MAP(extension)].exclude_dir)
    \cup Range(exclude_dir)

ExcludedDirs == {d \in subdirs : PathName(d) \in ExcludedNames}

C2_ExcludedDirsPruned ==
  extension \in SupportedExtensions =>
    /\ config.exclude_dirs = ExcludedNames
    /\ \A d \in ExcludedDirs :
         /\ d \notin Range(stack)
         /\ \A k \in 1..Len(metadata.tree) :
              metadata.tree[k].path # d /\ ~Under(metadata.tree[k].path, d)
         /\ \A k \in 1..Len(collected) : ~Under(collected[k], d)
         /\ \A k \in 1..Len(code) : ~Under(HeadingFile(k), d)

C2_Witness ==
  /\ Succeeded
  /\ extension = py
  /\ exclude_dir = <<d_x>>
  /\ subdirs = {join(path, d_x), join(path, d_venv)}
  /\ Len(target_files) = 1
  /\ Len(code) = 2

(***************************************************************************)
(* C4.  A root path that does not exist, with a supported extension: the   *)
(* run fails with FileNotFoundError before any directory is walked,        *)
(* save_markdown is not called and no output file is written.              *)
(***************************************************************************)
C4_PathNotFound ==
  (rootKind = "absent" /\ extension \in SupportedExtensions) =>
    /\ pc \notin {"config", "collect", "metadata", "code", "save"}
    /\ pc \in {"except", "done"} => err = "FileNotFoundError"
    /\ pc = "done" => printed = "Error"
    /\ "scandir" \notin fsops
    /\ "open_write" \notin fsops
    /\ written = <<>>

C4_Witness ==
  /\ rootKind = "absent"
  /\ pc = "done"
  /\ err = "FileNotFoundError"
  /\ "exists_root" \in fsops

(***************************************************************************)
(* C6.  In a completed document the two counts of the Metadata section     *)
(* are the numbers of target and infrastructure files with a heading in    *)
(* the Code section, every collected file has exactly one heading, the     *)
(* headings ascend by file path, and the files of the Metadata tree are    *)
(* the files with a heading.                                               *)
(***************************************************************************)
C6_CountsAndHeadings ==
  Rendered =>
    /\ metadata.n_target =
         Cardinality({k \in 1..Len(code) : HeadingFile(k) \in Range(target_files)})
    /\ metadata.n_infra =
         Cardinality({k \in 1..Len(code) : HeadingFile(k) \in Range(infrastructure_files)})
    /\ \A f \in Range(collected) :
         Cardinality({k \in 1..Len(code) : HeadingFile(k) = f}) = 1
    /\ Len(code) = Len(collected)
    /\ \A k \in 1..(Len(code) - 1) : StrLess(HeadingFile(k), HeadingFile(k + 1))
    /\ TreeFiles = {HeadingFile(k) : k \in 1..Len(code)}

C6_Witness ==
  /\ Succeeded
  /\ metadata.n_target = 2
  /\ metadata.n_infra = 2
  /\ Len(code) = 4
  /\ target_files # sorted(target_files)

(***************************************************************************)
(* C8.  A selected file that cannot be read still gets its heading,        *)
(* followed by the error line; every other file is rendered in the same    *)
(* sorted order with its own content; the run completes and writes the     *)
(* output file.                                                            *)
(***************************************************************************)
C8_ReadErrorInline ==
  Rendered =>
    /\ Len(code) = Len(collected)
    /\ \A k \in 1..Len(code) :
         LET f == sorted(collected)[k]
         IN  /\ code[k].heading = relpath(f, abs_directory)
             /\ code[k].error = ~Readable(f)
             /\ Readable(f) => code[k].body = f
    /\ pc = "done" =>
         /\ printed = "created successfully"
         /\ written # <<>>
         /\ written[Len(written)].code = code

C8_Witness ==
  /\ Succeeded
  /\ \E k \in 1..Len(code) : code[k].error
  /\ \E k \in 1..Len(code) : ~code[k].error /\ k > 1 /\ code[k - 1].error
  /\ written # <<>>

(***************************************************************************)
(* C3.  An extension outside {py, dart, sql}: the run fails with           *)
(* ValueError having made no existence check of the root, no directory     *)
(* walk, no directory creation and no output file write.                   *)
(***************************************************************************)
C3_UnsupportedBeforeFilesystem ==
  extension \notin SupportedExtensions =>
    /\ pc \in {"except", "done"} => err = "ValueError"
    /\ fsops \cap {"exists_root", "scandir", "makedirs_output", "open_write"} = {}

(***************************************************************************)
(* C5.  A root that is not a directory (absent, or a regular file): the    *)
(* run fails with FileNotFoundError and does not collect, render or write. *)
(***************************************************************************)
C5_RootMustBeDirectory ==
  (rootKind # "dir" /\ extension \in SupportedExtensions) =>
    /\ pc \notin {"config", "collect", "metadata", "code", "save"}
    /\ pc \in {"except", "done"} => err = "FileNotFoundError"
    /\ written = <<>>

(***************************************************************************)
(* C7.  A second run with the same parameters on the same tree prints the  *)
(* same Metadata and Code sections as the first, whatever order the        *)
(* directories and files are enumerated in.                                *)
(***************************************************************************)
C7_SameOutputOnRerun ==
  (rerun /\ Succeeded) =>
    Printed(metadata, code) = Printed(firstDoc[1].metadata, firstDoc[1].code)

(***************************************************************************)
(* C9.  A run never reports success with no error after a subdirectory     *)
(* below the root could not be listed during the walk.                     *)
(***************************************************************************)
C9_UnreadableDirSurfaced ==
  Succeeded => unlisted \cap subdirs = {}

(***************************************************************************)
(* C10.  In the Metadata tree a directory at depth d below the root is     *)
(* indented 4*d spaces, each of its files 4*(d+1) spaces, and the files of *)
(* a directory are listed in ascending order.                              *)
(***************************************************************************)
C10_TreeIndent ==
  \A k \in 1..Len(metadata.tree) :
    LET l == metadata.tree[k]
    IN  /\ l.indent = 4 * Depth(l.path)
        /\ (k > 1 /\ ~IsDirLine(l) /\ ~IsDirLine(metadata.tree[k - 1]))
             => StrLess(metadata.tree[k - 1].text, l.text)
====
